---- MODULE Spec2Model ----
(***************************************************************************)
(* Mood-based music recommender: the mood / adjustment taxonomies, the     *)
(* adjustment engine (adjust_audio_features, parse_adjustment_text), the   *)
(* retry-wrapped catalog operations and the two user-facing handlers.      *)
(*                                                                         *)
(* Feature values are kept in hundredths (0.8 is 80, a tempo of 150 is     *)
(* 15000); the binary rounding of Python floats is not modelled.           *)
(* Python dicts are functions; a dict whose iteration order matters is a   *)
(* sequence of <<key, value>> pairs in insertion order.                    *)
(***************************************************************************)
EXTENDS Integers, Sequences, FiniteSets, TLC

VARIABLES
    \* ---- adjustment engine (SpecAdjust) ----
    heap,             \* the dict objects alive: reference -> feature vector
    base_ref,         \* the dict passed as base_features
    result_ref,       \* the dict adjust_audio_features returned ("none" before a call)
    adjustment_type,  \* the adjustment_type of the last call
    adjust_impl,      \* which copy of the function ran: "main" or "client"
    base_before,      \* contents of the base dict when the last call started
    repeated,         \* whether the last call has been made a second time
    second_result,    \* contents returned by that second call
    steps,            \* adjustments chained so far
    \* ---- adjustment text parser (SpecParse) ----
    text_words,       \* the words of the text passed to parse_adjustment_text
    text,             \* the local text after text = text.lower().strip()
    parse_pc,         \* "start", "call" (text chosen), "done" (parsed)
    parsed,           \* what parse_adjustment_text returned ("none" before)
    \* ---- catalog operations behind the retry wrapper (SpecGateway) ----
    gw_pc,            \* "idle" or "done"
    gw_op,            \* the operation called ("none" before a call)
    gw_impl,          \* "main" (module-level function) or "client" (SpotifyClient method)
    gw_seed_tracks,   \* argument seed_tracks
    gw_audio_features,\* argument audio_features
    gw_name,          \* argument name
    gw_playlist_id,   \* argument playlist_id
    gw_track_uris,    \* argument track_uris
    gw_outcomes,      \* how the external calls of attempt 1, 2, 3 would end
    gw_attempts,      \* attempts the retry wrapper made
    gw_sent_seeds,    \* seed_tracks as passed to sp.recommendations
    gw_ret,           \* what the caller got: a returned value or a raised exception
    \* ---- the request handlers generate_playlist / modify_playlist (SpecService) ----
    sv_pc,            \* "idle" or "done"
    sv_op,            \* the handler called ("none" before a request)
    sv_request,       \* the request body
    sv_external,      \* how the external service behaves during the request
    sv_degraded,      \* the catalog operations that answered with fallback data
    sv_response,      \* what the handler's caller got
    \* ---- mood detection: predict_mood of main.py and of MoodDetector (SpecMood) ----
    nlp_model,        \* app.state.nlp_model: "unset" before startup, None or "pipeline"
    self_model,       \* MoodDetector.model: "unset" before __init__, None or "pipeline"
    md_impl,          \* which predict_mood ran last: "main" or "detector" ("none" before)
    md_available,     \* was the model there when that call began
    md_output,        \* what the classifier does when that call invokes it
    md_invoked,       \* did that call invoke the classifier
    md_ret,           \* what that call returned
    md_calls,         \* predict_mood calls so far
    \* ---- the three tables as objects of one module (SpecTables) ----
    tb_impl,          \* whose tables: "main" (main.py globals) or "client" (a SpotifyClient)
    tb_moods,         \* dict objects: the mood table's entries and the dicts calls made
    tb_adjustments,   \* the adjustment table
    tb_fallback,      \* list objects: the fallback catalog's track lists
    tb_held,          \* the feature dict the caller holds ("none" or a reference)
    tb_tracks,        \* the fallback list an operation handed out ("none" or a reference)
    tb_op,            \* the last operation
    tb_steps          \* operations so far

adjust_vars == <<heap, base_ref, result_ref, adjustment_type, adjust_impl,
                 base_before, repeated, second_result, steps>>

parse_vars == <<text_words, text, parse_pc, parsed>>

gateway_vars == <<gw_pc, gw_op, gw_impl, gw_seed_tracks, gw_audio_features, gw_name,
                  gw_playlist_id, gw_track_uris, gw_outcomes, gw_attempts,
                  gw_sent_seeds, gw_ret>>

service_vars == <<sv_pc, sv_op, sv_request, sv_external, sv_degraded, sv_response>>

mood_vars == <<nlp_model, self_model, md_impl, md_available, md_output, md_invoked,
               md_ret, md_calls>>

table_vars == <<tb_impl, tb_moods, tb_adjustments, tb_fallback, tb_held, tb_tracks,
                tb_op, tb_steps>>

vars == <<adjust_vars, parse_vars, gateway_vars, service_vars, mood_vars, table_vars>>

\* what each component leaves alone
outside_adjust == <<parse_vars, gateway_vars, service_vars, mood_vars, table_vars>>
outside_parse == <<adjust_vars, gateway_vars, service_vars, mood_vars, table_vars>>
outside_gateway == <<adjust_vars, parse_vars, service_vars, mood_vars, table_vars>>
outside_service == <<adjust_vars, parse_vars, gateway_vars, mood_vars, table_vars>>
outside_mood == <<adjust_vars, parse_vars, gateway_vars, service_vars, table_vars>>
outside_tables == <<adjust_vars, parse_vars, gateway_vars, service_vars, mood_vars>>

-----------------------------------------------------------------------------
(* Bounds of the model *)

\* longest chain of adjustments applied one after another
MaxChain == 3

\* most words of a text given to parse_adjustment_text
MaxWords == 3

\* longest seed_tracks list given to get_recommendations
MaxSeeds == 6

\* most predict_mood calls in one run
MaxCalls == 2

\* most operations in one run over the tables
MaxOps == 3

-----------------------------------------------------------------------------
(* Python dict helpers *)

EmptyDict == [k \in {} |-> 0]

\* d[k] = v
DictSet(d, k, v) == [f \in (DOMAIN d) \cup {k} |-> IF f = k THEN v ELSE d[f]]

\* d.get(k, default)
DictGet(d, k, default) == IF k \in DOMAIN d THEN d[k] ELSE default

Max(a, b) == IF a >= b THEN a ELSE b
Min(a, b) == IF a <= b THEN a ELSE b

-----------------------------------------------------------------------------
(* The fixed tables *)

Moods == {"happy", "sad", "energetic", "calm", "focused"}

\* insertion order of MOOD_TO_AUDIO_FEATURES / mood_feature_map
MoodOrder == <<"happy", "sad", "energetic", "calm", "focused">>

MOOD_TO_AUDIO_FEATURES ==
    [m \in Moods |->
        CASE m = "happy"     -> ("target_valence" :> 80) @@ ("target_energy" :> 70) @@ ("min_valence" :> 60)
          [] m = "sad"       -> ("target_valence" :> 30) @@ ("target_energy" :> 40) @@ ("max_valence" :> 40)
          [] m = "energetic" -> ("target_energy" :> 90) @@ ("min_energy" :> 80) @@ ("target_tempo" :> 15000)
          [] m = "calm"      -> ("target_energy" :> 20) @@ ("max_energy" :> 30) @@ ("target_acousticness" :> 80)
          [] m = "focused"   -> ("target_energy" :> 50) @@ ("target_instrumentalness" :> 70) @@ ("max_speechiness" :> 10)]

\* insertion order of ADJUSTMENTS / self.adjustments
AdjustmentOrder ==
    <<"more energetic", "less energetic", "happier", "more acoustic",
      "more danceable", "more instrumental", "more calm">>

AdjustmentIds == {AdjustmentOrder[i] : i \in 1..Len(AdjustmentOrder)}

\* main.ADJUSTMENTS: adjustment -> its (feature, delta) items in insertion order
ADJUSTMENTS ==
    [a \in AdjustmentIds |->
        CASE a = "more energetic"    -> << <<"target_energy", 20>> >>
          [] a = "less energetic"    -> << <<"target_energy", -20>> >>
          [] a = "happier"           -> << <<"target_valence", 20>> >>
          [] a = "more acoustic"     -> << <<"target_acousticness", 20>> >>
          [] a = "more danceable"    -> << <<"target_danceability", 20>> >>
          [] a = "more instrumental" -> << <<"target_instrumentalness", 20>> >>
          [] a = "more calm"         -> << <<"target_energy", -30>>, <<"target_tempo", -2000>> >>]

\* SpotifyClient.adjustments
self_adjustments ==
    [a \in AdjustmentIds |->
        CASE a = "more energetic"    -> << <<"target_energy", 20>> >>
          [] a = "less energetic"    -> << <<"target_energy", -20>> >>
          [] a = "happier"           -> << <<"target_valence", 20>> >>
          [] a = "more acoustic"     -> << <<"target_acousticness", 20>> >>
          [] a = "more danceable"    -> << <<"target_danceability", 20>> >>
          [] a = "more instrumental" -> << <<"target_instrumentalness", 20>> >>
          [] a = "more calm"         -> << <<"target_energy", -30>>, <<"target_tempo", -2000>> >>]

\* the list literal of the clamp test in adjust_audio_features
BoundedFeatures ==
    {"target_valence", "target_energy", "target_acousticness",
     "target_danceability", "target_instrumentalness"}

\* the 0.0 and 1.0 of max(0.0, min(1.0, x)), in hundredths
ClampLow == 0
ClampHigh == 100

-----------------------------------------------------------------------------
(* adjust_audio_features *)

\* max(0.0, min(1.0, x))
ClampNone(x) == x
Clamp(x) == Max(ClampLow, Min(ClampHigh, x))

\* one pass of the for loop body: add or insert, then clamp a bounded feature
AdjustStepClampAll(d, feature, value) ==
    LET d1 == IF feature \in DOMAIN d
              THEN [d EXCEPT ![feature] = @ + value]
              ELSE DictSet(d, feature, value)
    IN  [d1 EXCEPT ![feature] = Max(ClampLow, Min(ClampHigh, @))]
AdjustStep(d, feature, value) ==
    LET d1 == IF feature \in DOMAIN d
              THEN [d EXCEPT ![feature] = @ + value]
              ELSE DictSet(d, feature, value)
    IN  IF feature \in BoundedFeatures
        THEN [d1 EXCEPT ![feature] = Clamp(@)]
        ELSE d1

\* for feature, value in adjustments[adjustment_type].items(): ...
RECURSIVE AdjustLoop(_, _)
AdjustLoop(d, items) ==
    IF items = <<>> THEN d
    ELSE AdjustLoop(AdjustStep(d, Head(items)[1], Head(items)[2]), Tail(items))

\* base_features.copy(): a new dict object at reference fresh
DictAlias(h, ref, fresh) == [heap |-> h, ref |-> ref]
DictCopy(h, ref, fresh) ==
    [heap |-> [r \in (DOMAIN h) \cup {fresh} |-> IF r = fresh THEN h[ref] ELSE h[r]],
     ref  |-> fresh]

\* (an adjust_audio_features that writes into base_features itself)
AdjustOnHeapInPlace(adjustments, h, base, adj, fresh) ==
    IF adj \notin DOMAIN adjustments
    THEN [heap |-> h, ref |-> base]
    ELSE [heap |-> [h EXCEPT ![base] = AdjustLoop(@, adjustments[adj])], ref |-> base]

\* The body shared by both copies of adjust_audio_features, on the heap:
\* returns the heap after the call and the reference returned.
AdjustOnHeap(adjustments, h, base, adj, fresh) ==
    IF adj \notin DOMAIN adjustments
    THEN [heap |-> h, ref |-> base]
    ELSE LET c == DictCopy(h, base, fresh)
         IN  [heap |-> [c.heap EXCEPT ![c.ref] = AdjustLoop(@, adjustments[adj])],
              ref  |-> c.ref]

\* main.adjust_audio_features
adjust_audio_features(h, base, adj, fresh) ==
    AdjustOnHeap(ADJUSTMENTS, h, base, adj, fresh)

\* SpotifyClient.adjust_audio_features
SpotifyClient_adjust_audio_features(h, base, adj, fresh) ==
    AdjustOnHeap(self_adjustments, h, base, adj, fresh)

-----------------------------------------------------------------------------
(* SpecAdjust: chains of adjust_audio_features calls on a heap of dicts *)

\* references of the mood table's own entries, and of the dicts calls create
TableRefs == {"tbl_happy", "tbl_sad", "tbl_energetic", "tbl_calm", "tbl_focused"}
TableRefOf(m) == "tbl_" \o m
ScratchRefs == {"d1", "d2", "d3"}

TableHeap ==
    [r \in TableRefs |->
        MOOD_TO_AUDIO_FEATURES[CHOOSE m \in Moods : TableRefOf(m) = r]]

\* dicts a caller builds itself; every bounded feature in them is in [0.0, 1.0]
CallerVectors ==
    { EmptyDict,
      ("target_energy" :> 90),
      ("target_energy" :> 85),
      ("target_valence" :> 100) @@ ("target_danceability" :> 90),
      ("target_acousticness" :> 0) @@ ("target_instrumentalness" :> 95)
         @@ ("target_tempo" :> 1000) }

\* an adjustment_type that is in neither table
UnknownAdjustment == "louder"
AdjustmentInputs == AdjustmentIds \cup {UnknownAdjustment}

FreshRef(h) == CHOOSE r \in ScratchRefs : r \notin DOMAIN h

\* drop the dicts nothing refers to any more
Collect(h, live) == [r \in (DOMAIN h) \cap (TableRefs \cup live) |-> h[r]]

InitAdjust ==
    /\ result_ref = "none"
    /\ adjustment_type = "none"
    /\ adjust_impl = "none"
    /\ base_before = EmptyDict
    /\ repeated = FALSE
    /\ second_result = EmptyDict
    /\ steps = 0
    /\ \/ \* the table's own entry, as get_audio_features_for_mood returns it
          /\ base_ref \in TableRefs
          /\ heap = TableHeap
       \/ \* a dict of the caller (MOOD_TO_AUDIO_FEATURES[m].copy(), or its own)
          /\ base_ref = "d1"
          /\ \E v \in CallerVectors \cup {MOOD_TO_AUDIO_FEATURES[m] : m \in Moods} :
                heap = TableHeap @@ ("d1" :> v)

\* the result of the previous call becomes the base of the next one
BaseOfNextCall == IF result_ref = "none" THEN base_ref ELSE result_ref

\* one call of adjust_audio_features(base_features, adjustment_type)
Adjust(impl, adj) ==
    /\ steps < MaxChain
    /\ LET b  == BaseOfNextCall
           h0 == Collect(heap, {b})
           r  == IF impl = "main"
                 THEN adjust_audio_features(h0, b, adj, FreshRef(h0))
                 ELSE SpotifyClient_adjust_audio_features(h0, b, adj, FreshRef(h0))
       IN  /\ base_ref' = b
           /\ base_before' = heap[b]
           /\ heap' = r.heap
           /\ result_ref' = r.ref
    /\ adjustment_type' = adj
    /\ adjust_impl' = impl
    /\ repeated' = FALSE
    /\ second_result' = EmptyDict
    /\ steps' = steps + 1
    /\ UNCHANGED outside_adjust

\* the same call once more: same base dict, same adjustment_type
Repeat ==
    /\ result_ref # "none"
    /\ ~repeated
    /\ repeated' = TRUE
    /\ LET r == IF adjust_impl = "main"
                THEN adjust_audio_features(heap, base_ref, adjustment_type, FreshRef(heap))
                ELSE SpotifyClient_adjust_audio_features(heap, base_ref, adjustment_type, FreshRef(heap))
       IN  /\ second_result' = r.heap[r.ref]
           /\ heap' = Collect(r.heap, {base_ref, result_ref})
    /\ UNCHANGED <<base_ref, result_ref, adjustment_type, adjust_impl, base_before, steps>>
    /\ UNCHANGED outside_adjust

AdjustMain == \E adj \in AdjustmentInputs : Adjust("main", adj)
AdjustClient == \E adj \in AdjustmentInputs : Adjust("client", adj)

NextAdjust ==
    \/ AdjustMain
    \/ AdjustClient
    \/ Repeat

-----------------------------------------------------------------------------
(* Text: a Python str is a sequence of one-character strings *)

\* the words the model can spell, as Python would hold them
Words ==
    {"more", "less", "energetic", "happier", "acoustic", "danceable", "instrumental", "calm",
     "energy", "lively", "upbeat", "lower", "down", "happy", "cheerful", "joyful", "unplugged",
     "dance", "groove", "rhythm", "no", "vocals", "singing", "relaxing", "peaceful", "chill",
     "loud", "piano", "More", "CALM", "", "sad", "focused",
     "I", "want", "something", "but", "make", "it", "super", "and", "please"}

Spell(w) ==
    CASE w = "more" -> <<"m", "o", "r", "e">>
      [] w = "less" -> <<"l", "e", "s", "s">>
      [] w = "energetic" -> <<"e", "n", "e", "r", "g", "e", "t", "i", "c">>
      [] w = "happier" -> <<"h", "a", "p", "p", "i", "e", "r">>
      [] w = "acoustic" -> <<"a", "c", "o", "u", "s", "t", "i", "c">>
      [] w = "danceable" -> <<"d", "a", "n", "c", "e", "a", "b", "l", "e">>
      [] w = "instrumental" -> <<"i", "n", "s", "t", "r", "u", "m", "e", "n", "t", "a", "l">>
      [] w = "calm" -> <<"c", "a", "l", "m">>
      [] w = "energy" -> <<"e", "n", "e", "r", "g", "y">>
      [] w = "lively" -> <<"l", "i", "v", "e", "l", "y">>
      [] w = "upbeat" -> <<"u", "p", "b", "e", "a", "t">>
      [] w = "lower" -> <<"l", "o", "w", "e", "r">>
      [] w = "down" -> <<"d", "o", "w", "n">>
      [] w = "happy" -> <<"h", "a", "p", "p", "y">>
      [] w = "cheerful" -> <<"c", "h", "e", "e", "r", "f", "u", "l">>
      [] w = "joyful" -> <<"j", "o", "y", "f", "u", "l">>
      [] w = "unplugged" -> <<"u", "n", "p", "l", "u", "g", "g", "e", "d">>
      [] w = "dance" -> <<"d", "a", "n", "c", "e">>
      [] w = "groove" -> <<"g", "r", "o", "o", "v", "e">>
      [] w = "rhythm" -> <<"r", "h", "y", "t", "h", "m">>
      [] w = "no" -> <<"n", "o">>
      [] w = "vocals" -> <<"v", "o", "c", "a", "l", "s">>
      [] w = "singing" -> <<"s", "i", "n", "g", "i", "n", "g">>
      [] w = "relaxing" -> <<"r", "e", "l", "a", "x", "i", "n", "g">>
      [] w = "peaceful" -> <<"p", "e", "a", "c", "e", "f", "u", "l">>
      [] w = "chill" -> <<"c", "h", "i", "l", "l">>
      [] w = "loud" -> <<"l", "o", "u", "d">>
      [] w = "piano" -> <<"p", "i", "a", "n", "o">>
      [] w = "More" -> <<"M", "o", "r", "e">>
      [] w = "CALM" -> <<"C", "A", "L", "M">>
      [] w = "" -> <<>>
      [] w = "sad" -> <<"s", "a", "d">>
      [] w = "focused" -> <<"f", "o", "c", "u", "s", "e", "d">>
      [] w = "I" -> <<"I">>
      [] w = "want" -> <<"w", "a", "n", "t">>
      [] w = "something" -> <<"s", "o", "m", "e", "t", "h", "i", "n", "g">>
      [] w = "but" -> <<"b", "u", "t">>
      [] w = "make" -> <<"m", "a", "k", "e">>
      [] w = "it" -> <<"i", "t">>
      [] w = "super" -> <<"s", "u", "p", "e", "r">>
      [] w = "and" -> <<"a", "n", "d">>
      [] w = "please" -> <<"p", "l", "e", "a", "s", "e">>

\* str.lower() on the letters the model uses
UpperLetters == <<"A", "C", "L", "M", "I">>
LowerLetters == <<"a", "c", "l", "m", "i">>
LowerChar(c) ==
    IF \E i \in 1..Len(UpperLetters) : UpperLetters[i] = c
    THEN LowerLetters[CHOOSE i \in 1..Len(UpperLetters) : UpperLetters[i] = c]
    ELSE c
StrLower(t) == [i \in 1..Len(t) |-> LowerChar(t[i])]

\* str.strip(): leading and trailing whitespace removed
Whitespace == {" "}
RECURSIVE LStrip(_)
LStrip(t) == IF t # <<>> /\ Head(t) \in Whitespace THEN LStrip(Tail(t)) ELSE t
RECURSIVE RStrip(_)
RStrip(t) ==
    IF t # <<>> /\ t[Len(t)] \in Whitespace THEN RStrip(SubSeq(t, 1, Len(t) - 1)) ELSE t
StrStrip(t) == RStrip(LStrip(t))

\* pattern in text (substring test)
StrContains(txt, pattern) ==
    \E i \in 0..(Len(txt) - Len(pattern)) :
        \A j \in 1..Len(pattern) : txt[i + j] = pattern[j]

\* " ".join(words)
RECURSIVE JoinWords(_)
JoinWords(ws) ==
    IF ws = <<>> THEN <<>>
    ELSE IF Len(ws) = 1 THEN Spell(ws[1])
    ELSE Spell(ws[1]) \o <<" ">> \o JoinWords(Tail(ws))

\* a string literal with blanks in it, spelled
Literal(ws) == JoinWords(ws)

-----------------------------------------------------------------------------
(* SpotifyClient.parse_adjustment_text *)

\* the words of each key of self.adjustments
AdjustmentWords(a) ==
    CASE a = "more energetic"    -> <<"more", "energetic">>
      [] a = "less energetic"    -> <<"less", "energetic">>
      [] a = "happier"           -> <<"happier">>
      [] a = "more acoustic"     -> <<"more", "acoustic">>
      [] a = "more danceable"    -> <<"more", "danceable">>
      [] a = "more instrumental" -> <<"more", "instrumental">>
      [] a = "more calm"         -> <<"more", "calm">>

\* the keys of self.adjustments, spelled, in insertion order
AdjustmentPhrases ==
    [i \in 1..Len(AdjustmentOrder) |-> Literal(AdjustmentWords(AdjustmentOrder[i]))]

\* the keyword lists of the semantic matches
EnergyWords == {Literal(<<"energetic">>), Literal(<<"energy">>), Literal(<<"lively">>), Literal(<<"upbeat">>)}
NegationWords == {Literal(<<"less">>), Literal(<<"lower">>), Literal(<<"down">>)}
HappyWords == {Literal(<<"happy">>), Literal(<<"cheerful">>), Literal(<<"joyful">>)}
AcousticWords == {Literal(<<"acoustic">>), Literal(<<"unplugged">>)}
DanceWords == {Literal(<<"dance">>), Literal(<<"groove">>), Literal(<<"rhythm">>)}
InstrumentalWords == {Literal(<<"instrumental">>), Literal(<<"no", "vocals">>), Literal(<<"no", "singing">>)}
CalmWords == {Literal(<<"calm">>), Literal(<<"relaxing">>), Literal(<<"peaceful">>), Literal(<<"chill">>)}

\* any(word in text for word in words)
AnyWordIn(txt, words) == \E w \in words : StrContains(txt, w)

\* for adjustment in self.adjustments: if adjustment in text: return adjustment
\* ("none" when the loop ends without returning)
ExactMatchSkipped(txt, i) == "none"
RECURSIVE ExactMatch(_, _)
ExactMatch(txt, i) ==
    IF i > Len(AdjustmentPhrases) THEN "none"
    ELSE IF StrContains(txt, AdjustmentPhrases[i]) THEN AdjustmentOrder[i]
    ELSE ExactMatch(txt, i + 1)

\* the if / elif chain of semantic matches, and the default
SemanticMatchCalmBeforeHappy(txt) ==
    IF AnyWordIn(txt, EnergyWords)
    THEN IF ~AnyWordIn(txt, NegationWords) THEN "more energetic" ELSE "less energetic"
    ELSE IF AnyWordIn(txt, CalmWords) THEN "more calm"
    ELSE IF AnyWordIn(txt, HappyWords) THEN "happier"
    ELSE IF AnyWordIn(txt, AcousticWords) THEN "more acoustic"
    ELSE IF AnyWordIn(txt, DanceWords) THEN "more danceable"
    ELSE IF AnyWordIn(txt, InstrumentalWords) THEN "more instrumental"
    ELSE "more energetic"
SemanticMatch(txt) ==
    IF AnyWordIn(txt, EnergyWords)
    THEN IF ~AnyWordIn(txt, NegationWords) THEN "more energetic" ELSE "less energetic"
    ELSE IF AnyWordIn(txt, HappyWords) THEN "happier"
    ELSE IF AnyWordIn(txt, AcousticWords) THEN "more acoustic"
    ELSE IF AnyWordIn(txt, DanceWords) THEN "more danceable"
    ELSE IF AnyWordIn(txt, InstrumentalWords) THEN "more instrumental"
    ELSE IF AnyWordIn(txt, CalmWords) THEN "more calm"
    ELSE "more energetic"

\* text = text.lower().strip()
NormalizeText(raw) == StrStrip(StrLower(raw))

\* the rest of the body, on the normalized text
ParseNormalizedExactOnly(t) == ExactMatch(t, 1)
ParseNormalized(t) ==
    LET exact == ExactMatch(t, 1)
    IN  IF exact # "none" THEN exact ELSE SemanticMatch(t)

parse_adjustment_text(raw) == ParseNormalized(NormalizeText(raw))

-----------------------------------------------------------------------------
(* SpecParse: parse_adjustment_text on texts of a few words *)

\* the words texts are built from: every word of a phrase or keyword, two words
\* that hold a keyword inside another word or across a blank ("danceable",
\* "piano vocals"), a word that matches nothing, a capital, and the empty word
\* (which puts blanks at the ends of the text or doubles them inside it)
Vocabulary ==
    {"more", "less", "energetic", "happier", "acoustic", "danceable", "instrumental", "calm",
     "energy", "lively", "upbeat", "lower", "down", "happy", "cheerful", "joyful", "unplugged",
     "dance", "groove", "rhythm", "no", "vocals", "singing", "relaxing", "peaceful", "chill",
     "loud", "piano", "More", ""}

\* the texts of the specification's scenarios
ScenarioTexts ==
    { <<"I", "want", "something", "more", "energetic", "but", "less", "loud">>,
      <<"make", "it", "super", "chill", "and", "relaxing">>,
      <<"please", "make", "it", "more", "danceable">> }

InputTexts ==
    ScenarioTexts \cup UNION {[1..n -> Vocabulary] : n \in 0..MaxWords}

InitParse ==
    /\ text_words = <<>>
    /\ text = <<>>
    /\ parse_pc = "start"
    /\ parsed = "none"

\* the caller chooses its text
ChooseText ==
    /\ parse_pc = "start"
    /\ \E t \in InputTexts : text_words' = t
    /\ parse_pc' = "call"
    /\ UNCHANGED <<text, parsed>>
    /\ UNCHANGED outside_parse

\* client.parse_adjustment_text(text)
ParseAdjustmentText ==
    /\ parse_pc = "call"
    /\ text' = NormalizeText(JoinWords(text_words))
    /\ parsed' = ParseNormalized(text')
    /\ parse_pc' = "done"
    /\ UNCHANGED text_words
    /\ UNCHANGED outside_parse

NextParse ==
    \/ ChooseText
    \/ ParseAdjustmentText

-----------------------------------------------------------------------------
(* The fallback catalogs *)

\* main.FALLBACK_TRACKS (the file holds the e-acute of the Satie title as two
\* mis-decoded characters, written "A(c)" here)
FALLBACK_TRACKS ==
    [m \in Moods |->
        CASE m = "happy" ->
               << [id |-> "4iV5W9uYEdYUVa79Axb7Rh", name |-> "Uptown Funk", artist |-> "Mark Ronson"],
                  [id |-> "0SiywuOBRcynK0uKGWdCnn", name |-> "Happy", artist |-> "Pharrell Williams"],
                  [id |-> "3MrRksHupTVEQ7YbA0FsZK", name |-> "Can't Stop the Feeling!", artist |-> "Justin Timberlake"] >>
          [] m = "sad" ->
               << [id |-> "0pqnGHJpmpxLKifKRmU6WP", name |-> "Imagine", artist |-> "John Lennon"],
                  [id |-> "1BxfuPKGuaTgP7aM0Bbdwr", name |-> "Hello", artist |-> "Adele"],
                  [id |-> "6b2RcmUt1g9N9mQ3CbjX2Y", name |-> "Skinny Love", artist |-> "Bon Iver"] >>
          [] m = "energetic" ->
               << [id |-> "7CZyCXKG6d5ALeq41sLzbP", name |-> "The Middle", artist |-> "Zedd"],
                  [id |-> "2KH16WveTQWT6KOG9Rg6e2", name |-> "Eye of the Tiger", artist |-> "Survivor"],
                  [id |-> "1zB4vmk8tFRmM9UULNzbLB", name |-> "Thunder", artist |-> "Imagine Dragons"] >>
          [] m = "calm" ->
               << [id |-> "0WqIKmW4BTrj3eJFmnCKMv", name |-> "River Flows In You", artist |-> "Yiruma"],
                  [id |-> "2LTlO3NuNVN70lp2ZbVswF", name |-> "Weightless", artist |-> "Marconi Union"],
                  [id |-> "4NwJCTuBJ1RSeZyEwzfL1T", name |-> "GymnopA(c)die No.1", artist |-> "Erik Satie"] >>
          [] m = "focused" ->
               << [id |-> "5wCKGrqU8rYvJfFYZJOxeN", name |-> "Brain Waves", artist |-> "Study Music"],
                  [id |-> "7MfxUR9vMuCIKjJ0tfhuJJ", name |-> "Concentration", artist |-> "Focus Music"],
                  [id |-> "6l8EbYRtQMgKOyc1gcDHF9", name |-> "Deep Focus", artist |-> "Alpha Waves"] >>]

\* spotify_client.FALLBACK_TRACKS (the Satie title with its e-acute, written "e")
SpotifyClient_FALLBACK_TRACKS ==
    [m \in Moods |->
        IF m = "calm"
        THEN [FALLBACK_TRACKS[m] EXCEPT ![3].name = "Gymnopedie No.1"]
        ELSE FALLBACK_TRACKS[m]]

FallbackTracksOf(impl) ==
    IF impl = "main" THEN FALLBACK_TRACKS ELSE SpotifyClient_FALLBACK_TRACKS

\* [track["id"] for track in tracks]
TrackIds(tracks) == [i \in 1..Len(tracks) |-> tracks[i].id]

-----------------------------------------------------------------------------
(* The external catalog service (spotipy) *)

\* how one external call ends: it returns, raises one of the kinds the retry
\* policy names (requests.exceptions.RequestException, spotipy.SpotifyException),
\* or raises anything else
Outcomes == {"ok", "transient", "other"}

\* retry_if_exception_type((RequestException, SpotifyException))
RetryableExceptions == {"transient"}

\* what the service answers when a call returns
UserTopTracks == <<"top1", "top2", "top3">>
CatalogTrack(n) ==
    [id |-> "rec" \o n, uri |-> "spotify:track:rec" \o n, name |-> "Recommended " \o n,
     artists |-> << [name |-> "Artist " \o n] >>]
RecommendedTracks == <<CatalogTrack("1"), CatalogTrack("2")>>
CreatedPlaylist(name) == [id |-> "new_playlist", name |-> name]
StoredPlaylist(playlist_id) == [id |-> playlist_id, name |-> "Stored playlist"]

-----------------------------------------------------------------------------
(* The retry wrapper: @tenacity.retry(wait=..., stop=stop_after_attempt(3),    *)
(* retry=retry_if_exception_type(...), reraise=True)                           *)

STOP_AFTER_ATTEMPT == 3

\* what a function body hands to the wrapper
Returned(v) == [kind |-> "return", value |-> v, exc |-> "none"]
Raised(e)   == [kind |-> "raise",  value |-> "none", exc |-> e]

\* the wrapper calls again when the body raised one of the named kinds and the
\* stop condition has not been met
ShouldRetry(r, attempt) ==
    r.kind = "raise" /\ r.exc \in RetryableExceptions /\ attempt < STOP_AFTER_ATTEMPT

\* (a wrapper that always uses up its attempts)
RetryingToTheEnd(results) ==
    [attempts |-> STOP_AFTER_ATTEMPT, result |-> results[STOP_AFTER_ATTEMPT]]

\* results[i] is what the body does on attempt i; the wrapper returns the first
\* result it does not retry (with reraise=True a last raise is raised as it is)
Retrying(results) ==
    LET last == CHOOSE i \in 1..STOP_AFTER_ATTEMPT :
                    /\ ~ShouldRetry(results[i], i)
                    /\ \A j \in 1..(i - 1) : ShouldRetry(results[j], j)
    IN  [attempts |-> last, result |-> results[last]]

-----------------------------------------------------------------------------
(* The four catalog operations: each body is one try / except Exception *)

\* get_top_tracks (main and SpotifyClient): the ids of the user's top tracks, or
\* on any exception the ids of a random mood's fallback tracks
GetTopTracksBody(impl, outcome, random_mood) ==
    IF outcome = "ok"
    THEN Returned(UserTopTracks)
    ELSE Returned(TrackIds(FallbackTracksOf(impl)[random_mood]))

\* limit to maximum 5 seed tracks
MAX_SEED_TRACKS == 5

\* the seeds handed to sp.recommendations
SeedsSentUncapped(impl, seed_tracks, random_mood) ==
    IF seed_tracks = <<>>
    THEN TrackIds(SubSeq(FallbackTracksOf(impl)[random_mood], 1, 2))
    ELSE seed_tracks
SeedsSent(impl, seed_tracks, random_mood) ==
    LET seeds == IF seed_tracks = <<>>
                 THEN TrackIds(SubSeq(FallbackTracksOf(impl)[random_mood], 1, 2))
                 ELSE seed_tracks
    IN  IF Len(seeds) > MAX_SEED_TRACKS THEN SubSeq(seeds, 1, MAX_SEED_TRACKS) ELSE seeds

\* main.get_recommendations, except branch:
\* mood = next(iter(audio_features.get("target_valence", 0.5) > 0.5 and "happy" or "sad"))
\* iter() of a str yields its characters, so mood is the first character
MainFallbackMood(audio_features) ==
    LET word == IF DictGet(audio_features, "target_valence", 50) > 50 THEN "happy" ELSE "sad"
    IN  Spell(word)[1]

\* SpotifyClient.get_recommendations, except branch: the if / elif chain
ClientFallbackMood(audio_features) ==
    IF DictGet(audio_features, "target_valence", 0) > 60 THEN "happy"
    ELSE IF DictGet(audio_features, "target_energy", 0) > 80 THEN "energetic"
    ELSE IF DictGet(audio_features, "target_acousticness", 0) > 60 THEN "calm"
    ELSE IF DictGet(audio_features, "target_valence", 0) < 40 THEN "sad"
    ELSE IF DictGet(audio_features, "target_instrumentalness", 0) > 60 THEN "focused"
    ELSE "happy"

\* FALLBACK_TRACKS.get(mood, FALLBACK_TRACKS["happy"])
FallbackFor(impl, mood) ==
    DictGet(FallbackTracksOf(impl), mood, FallbackTracksOf(impl)["happy"])

GetRecommendationsBody(impl, audio_features, outcome) ==
    IF outcome = "ok"
    THEN Returned(RecommendedTracks)
    ELSE IF impl = "main"
         THEN Returned(FallbackFor(impl, MainFallbackMood(audio_features)))
         ELSE Returned(FallbackFor(impl, ClientFallbackMood(audio_features)))

\* the two external calls of create_playlist and of modify_playlist_tracks: the
\* second is made only when the first returned
FirstFailure(outcome) ==
    IF outcome[1] # "ok" THEN outcome[1]
    ELSE IF outcome[2] # "ok" THEN outcome[2]
    ELSE "ok"

\* main.create_playlist returns {"id": "fallback_playlist", "name": name, "tracks": track_uris}
MainCreateFallback(name, track_uris, e) ==
    [id |-> "fallback_playlist", name |-> name, tracks |-> track_uris]

\* SpotifyClient.create_playlist adds "error": str(e)
ClientCreateFallback(name, track_uris, e) ==
    [id |-> "fallback_playlist", name |-> name, tracks |-> track_uris, error |-> e]

CreatePlaylistBody(impl, name, track_uris, outcome) ==
    IF FirstFailure(outcome) = "ok"
    THEN Returned(CreatedPlaylist(name))
    ELSE IF impl = "main"
         THEN Returned(MainCreateFallback(name, track_uris, FirstFailure(outcome)))
         ELSE Returned(ClientCreateFallback(name, track_uris, FirstFailure(outcome)))

\* modify_playlist_tracks (main and SpotifyClient): {"id": playlist_id, "error": str(e)}
ModifyPlaylistTracksBody(impl, playlist_id, track_uris, outcome) ==
    IF FirstFailure(outcome) = "ok"
    THEN Returned(StoredPlaylist(playlist_id))
    ELSE Returned([id |-> playlist_id, error |-> FirstFailure(outcome)])

\* the decorated functions: outcomes[i] is how the external calls of attempt i end
get_top_tracks(impl, outcomes, random_mood) ==
    Retrying([i \in 1..STOP_AFTER_ATTEMPT |->
                 GetTopTracksBody(impl, outcomes[i][1], random_mood)])

get_recommendations(impl, audio_features, outcomes) ==
    Retrying([i \in 1..STOP_AFTER_ATTEMPT |->
                 GetRecommendationsBody(impl, audio_features, outcomes[i][1])])

create_playlist(impl, name, track_uris, outcomes) ==
    Retrying([i \in 1..STOP_AFTER_ATTEMPT |->
                 CreatePlaylistBody(impl, name, track_uris, outcomes[i])])

modify_playlist_tracks(impl, playlist_id, track_uris, outcomes) ==
    Retrying([i \in 1..STOP_AFTER_ATTEMPT |->
                 ModifyPlaylistTracksBody(impl, playlist_id, track_uris, outcomes[i])])

-----------------------------------------------------------------------------
(* SpecGateway: one call of a catalog operation at a time *)

Impls == {"main", "client"}

\* one external call per attempt (the second of each pair is not made)
SingleCallOutcomes == [1..STOP_AFTER_ATTEMPT -> {<<o, "ok">> : o \in Outcomes}]

\* two external calls per attempt; the second is looked at when the first returned
DoubleCallOutcomes ==
    [1..STOP_AFTER_ATTEMPT ->
        {<<"ok", o>> : o \in Outcomes} \cup {<<o, "ok">> : o \in Outcomes}]

AllSeeds == <<"s1", "s2", "s3", "s4", "s5", "s6", "s7", "s8">>
SeedLists == {SubSeq(AllSeeds, 1, n) : n \in 0..MaxSeeds}

\* SpotifyClient.get_audio_features_for_mood
get_audio_features_for_mood(mood) ==
    DictGet(MOOD_TO_AUDIO_FEATURES, mood, MOOD_TO_AUDIO_FEATURES["happy"])

FeatureInputs == CallerVectors \cup {get_audio_features_for_mood(m) : m \in Moods}

PlaylistNames == {"My Mix", "Happy Mood Playlist"}
PlaylistIds == {"pl1", "pl2"}
TrackUriLists == {<<>>, <<"spotify:track:rec1", "spotify:track:rec2">>}

InitGateway ==
    /\ gw_pc = "idle"
    /\ gw_op = "none"
    /\ gw_impl = "none"
    /\ gw_seed_tracks = <<>>
    /\ gw_audio_features = EmptyDict
    /\ gw_name = "none"
    /\ gw_playlist_id = "none"
    /\ gw_track_uris = <<>>
    /\ gw_outcomes = <<>>
    /\ gw_attempts = 0
    /\ gw_sent_seeds = <<>>
    /\ gw_ret = Returned("none")

CallGetTopTracks ==
    /\ gw_pc = "idle"
    /\ \E impl \in Impls, outcomes \in SingleCallOutcomes, random_mood \in Moods :
          LET r == get_top_tracks(impl, outcomes, random_mood)
          IN  /\ gw_impl' = impl
              /\ gw_outcomes' = outcomes
              /\ gw_attempts' = r.attempts
              /\ gw_ret' = r.result
    /\ gw_op' = "get_top_tracks"
    /\ gw_pc' = "done"
    /\ UNCHANGED <<gw_seed_tracks, gw_audio_features, gw_name, gw_playlist_id,
                   gw_track_uris, gw_sent_seeds>>
    /\ UNCHANGED outside_gateway

CallGetRecommendations ==
    /\ gw_pc = "idle"
    /\ \E impl \in Impls, seeds \in SeedLists, features \in FeatureInputs,
          outcomes \in SingleCallOutcomes, random_mood \in Moods :
          LET r == get_recommendations(impl, features, outcomes)
          IN  /\ gw_impl' = impl
              /\ gw_seed_tracks' = seeds
              /\ gw_audio_features' = features
              /\ gw_outcomes' = outcomes
              /\ gw_attempts' = r.attempts
              /\ gw_sent_seeds' = SeedsSent(impl, seeds, random_mood)
              /\ gw_ret' = r.result
    /\ gw_op' = "get_recommendations"
    /\ gw_pc' = "done"
    /\ UNCHANGED <<gw_name, gw_playlist_id, gw_track_uris>>
    /\ UNCHANGED outside_gateway

CallCreatePlaylist ==
    /\ gw_pc = "idle"
    /\ \E impl \in Impls, name \in PlaylistNames, uris \in TrackUriLists,
          outcomes \in DoubleCallOutcomes :
          LET r == create_playlist(impl, name, uris, outcomes)
          IN  /\ gw_impl' = impl
              /\ gw_name' = name
              /\ gw_track_uris' = uris
              /\ gw_outcomes' = outcomes
              /\ gw_attempts' = r.attempts
              /\ gw_ret' = r.result
    /\ gw_op' = "create_playlist"
    /\ gw_pc' = "done"
    /\ UNCHANGED <<gw_seed_tracks, gw_audio_features, gw_playlist_id, gw_sent_seeds>>
    /\ UNCHANGED outside_gateway

CallModifyPlaylistTracks ==
    /\ gw_pc = "idle"
    /\ \E impl \in Impls, playlist_id \in PlaylistIds, uris \in TrackUriLists,
          outcomes \in DoubleCallOutcomes :
          LET r == modify_playlist_tracks(impl, playlist_id, uris, outcomes)
          IN  /\ gw_impl' = impl
              /\ gw_playlist_id' = playlist_id
              /\ gw_track_uris' = uris
              /\ gw_outcomes' = outcomes
              /\ gw_attempts' = r.attempts
              /\ gw_ret' = r.result
    /\ gw_op' = "modify_playlist_tracks"
    /\ gw_pc' = "done"
    /\ UNCHANGED <<gw_seed_tracks, gw_audio_features, gw_name, gw_sent_seeds>>
    /\ UNCHANGED outside_gateway

\* the caller has its result; the next call starts afresh
GatewayReturn ==
    /\ gw_pc = "done"
    /\ gw_pc' = "idle"
    /\ gw_op' = "none"
    /\ gw_impl' = "none"
    /\ gw_seed_tracks' = <<>>
    /\ gw_audio_features' = EmptyDict
    /\ gw_name' = "none"
    /\ gw_playlist_id' = "none"
    /\ gw_track_uris' = <<>>
    /\ gw_outcomes' = <<>>
    /\ gw_attempts' = 0
    /\ gw_sent_seeds' = <<>>
    /\ gw_ret' = Returned("none")
    /\ UNCHANGED outside_gateway

NextGateway ==
    \/ CallGetTopTracks
    \/ CallGetRecommendations
    \/ CallCreatePlaylist
    \/ CallModifyPlaylistTracks
    \/ GatewayReturn

-----------------------------------------------------------------------------
(* Mood detection: main.predict_mood and MoodDetector.predict_mood *)

\* Python's None
None == "None"

\* emotion_to_mood of map_emotion_to_mood, and MoodDetector.emotion_to_mood
emotion_to_mood ==
    ("joy" :> "happy") @@ ("sadness" :> "sad") @@ ("anger" :> "energetic")
       @@ ("fear" :> "sad") @@ ("love" :> "happy") @@ ("surprise" :> "energetic")
self_emotion_to_mood == emotion_to_mood

\* MoodDetector.available_moods
available_moods == <<"happy", "sad", "energetic", "calm", "focused">>

\* emotion_to_mood.get(emotion, "happy")
map_emotion_to_moodFearIsCalm(emotion) ==
    IF emotion = "fear" THEN "calm" ELSE DictGet(emotion_to_mood, emotion, "happy")
map_emotion_to_mood(emotion) == DictGet(emotion_to_mood, emotion, "happy")

\* result[0][0]['label'] and result[0][0]['score'] raise unless both are there
CanUnpack(result) ==
    /\ Len(result) >= 1
    /\ Len(result[1]) >= 1
    /\ {"label", "score"} \subseteq DOMAIN result[1][1]

\* the try / except Exception of predict_mood: out is what the classifier does
TryClassifyNoExcept(impl, out) ==
    IF out.raises \/ ~CanUnpack(out.value)
    THEN Raised("Exception")
    ELSE Returned([mood |-> map_emotion_to_mood(out.value[1][1].label),
                   confidence |-> out.value[1][1].score])
TryClassify(impl, out) ==
    IF out.raises \/ ~CanUnpack(out.value)
    THEN Returned([mood |-> "happy", confidence |-> 0])
    ELSE LET emotion == out.value[1][1].label
             confidence == out.value[1][1].score
             mood == IF impl = "main" THEN map_emotion_to_mood(emotion)
                     ELSE DictGet(self_emotion_to_mood, emotion, "happy")
         IN  Returned([mood |-> mood, confidence |-> confidence])

\* {"mood": random.choice(moods), "confidence": 0.5}
RandomMood(random_mood) == Returned([mood |-> random_mood, confidence |-> 50])

\* main.predict_mood(text, nlp_model)
predict_mood(model, out, random_mood) ==
    IF model = None
    THEN [ret |-> RandomMood(random_mood), invoked |-> FALSE]
    ELSE [ret |-> TryClassify("main", out), invoked |-> TRUE]

\* MoodDetector.initialize_model: the model after it, given whether the load works
initialize_model(loads) == IF loads THEN "pipeline" ELSE None

\* MoodDetector.predict_mood(text): a missing model is loaded again first
MoodDetector_predict_moodNoReturn(model, loads, out, random_mood) ==
    LET now == IF model = None THEN initialize_model(loads) ELSE model
    IN  [ret |-> TryClassify("detector", [out EXCEPT !.raises = @ \/ now = None]),
         invoked |-> now # None, model |-> now]
MoodDetector_predict_mood(model, loads, out, random_mood) ==
    LET now == IF model = None THEN initialize_model(loads) ELSE model
    IN  IF now = None
        THEN [ret |-> RandomMood(random_mood), invoked |-> FALSE, model |-> now]
        ELSE [ret |-> TryClassify("detector", out), invoked |-> TRUE, model |-> now]

-----------------------------------------------------------------------------
(* SpecMood: startup, then predict_mood calls *)

\* labels the classifier may give: the six of the table, and two others
Labels == {"joy", "sadness", "anger", "fear", "love", "surprise", "neutral", "Joy"}

\* scores in hundredths
Scores == {0, 50, 97}

\* what the classifier does when invoked: it raises, or returns a value
ClassifierOutputs ==
    {[raises |-> TRUE, value |-> <<>>]}
    \cup {[raises |-> FALSE, value |-> v] :
            v \in {<<>>, << <<>> >>, << <<[label |-> "joy"]>> >>}}
    \cup {[raises |-> FALSE, value |-> << <<[label |-> l, score |-> sc]>> >>] :
            l \in Labels, sc \in Scores}

NoOutput == [raises |-> FALSE, value |-> <<>>]

InitMood ==
    /\ nlp_model = "unset"
    /\ self_model = "unset"
    /\ md_impl = "none"
    /\ md_available = FALSE
    /\ md_output = NoOutput
    /\ md_invoked = FALSE
    /\ md_ret = Returned("none")
    /\ md_calls = 0

\* lifespan(): app.state.nlp_model is the pipeline, or None when loading failed
Lifespan ==
    /\ nlp_model = "unset"
    /\ \E loads \in BOOLEAN : nlp_model' = initialize_model(loads)
    /\ UNCHANGED <<self_model, md_impl, md_available, md_output, md_invoked, md_ret, md_calls>>
    /\ UNCHANGED outside_mood

\* MoodDetector.__init__
MoodDetectorInit ==
    /\ self_model = "unset"
    /\ \E loads \in BOOLEAN : self_model' = initialize_model(loads)
    /\ UNCHANGED <<nlp_model, md_impl, md_available, md_output, md_invoked, md_ret, md_calls>>
    /\ UNCHANGED outside_mood

PredictMoodMain ==
    /\ nlp_model # "unset"
    /\ md_calls < MaxCalls
    /\ \E out \in ClassifierOutputs, random_mood \in Moods :
          LET r == predict_mood(nlp_model, out, random_mood)
          IN  /\ md_output' = out
              /\ md_invoked' = r.invoked
              /\ md_ret' = r.ret
    /\ md_impl' = "main"
    /\ md_available' = (nlp_model # None)
    /\ md_calls' = md_calls + 1
    /\ UNCHANGED <<nlp_model, self_model>>
    /\ UNCHANGED outside_mood

PredictMoodDetector ==
    /\ self_model # "unset"
    /\ md_calls < MaxCalls
    /\ \E out \in ClassifierOutputs, random_mood \in Moods, loads \in BOOLEAN :
          LET r == MoodDetector_predict_mood(self_model, loads, out, random_mood)
          IN  /\ md_output' = out
              /\ md_invoked' = r.invoked
              /\ md_ret' = r.ret
              /\ self_model' = r.model
    /\ md_impl' = "detector"
    /\ md_available' = (self_model # None)
    /\ md_calls' = md_calls + 1
    /\ UNCHANGED nlp_model
    /\ UNCHANGED outside_mood

NextMood ==
    \/ Lifespan
    \/ MoodDetectorInit
    \/ PredictMoodMain
    \/ PredictMoodDetector

-----------------------------------------------------------------------------
(* The request handlers of main.py *)

\* mood.capitalize() for the moods of the table
Capitalize(mood) ==
    CASE mood = "happy" -> "Happy"
      [] mood = "sad" -> "Sad"
      [] mood = "energetic" -> "Energetic"
      [] mood = "calm" -> "Calm"
      [] mood = "focused" -> "Focused"


\* [track["uri"] for track in recommended_tracks]: KeyError when a track has no uri
HasUris(tracks) == \A i \in 1..Len(tracks) : "uri" \in DOMAIN tracks[i]
TrackUris(tracks) == [i \in 1..Len(tracks) |-> tracks[i].uri]

\* {"id": track["id"], "name": track["name"], "artist": track["artists"][0]["name"]}
TracksInfo(tracks) ==
    [i \in 1..Len(tracks) |->
        [id |-> tracks[i].id, name |-> tracks[i].name, artist |-> tracks[i].artists[1].name]]

\* did this call of a catalog operation answer with fallback data
Degraded(call, outcomes) == FirstFailure(outcomes[call.attempts]) # "ok"

\* the except branch of generate_playlist; it reads the local variable mood
GenerateFallback(mood) ==
    Returned([status  |-> "fallback",
              message |-> "Used fallback data due to API issues",
              mood    |-> mood,
              tracks  |-> DictGet(FALLBACK_TRACKS, mood, FALLBACK_TRACKS["happy"])])

\* generate_playlist: the response, and the catalog operations that degraded
generate_playlist(req, ext) ==
    IF ext.client # "ok" \/ ext.me # "ok"
    THEN \* the except branch runs before mood was assigned
         [response |-> Raised("UnboundLocalError"), degraded |-> {}]
    ELSE LET mood == IF req.mood \in DOMAIN MOOD_TO_AUDIO_FEATURES THEN req.mood ELSE "happy"
             audio_features == MOOD_TO_AUDIO_FEATURES[mood]
             top == get_top_tracks("main", ext.top, ext.random_mood)
             recs == get_recommendations("main", audio_features, ext.recs)
             playlist_name == IF req.name = None THEN Capitalize(mood) \o " Mood Playlist"
                              ELSE req.name
             d1 == IF Degraded(top, ext.top) THEN {"get_top_tracks"} ELSE {}
             d2 == IF Degraded(recs, ext.recs) THEN {"get_recommendations"} ELSE {}
         IN  IF top.result.kind = "raise" THEN [response |-> GenerateFallback(mood), degraded |-> {}]
             ELSE IF recs.result.kind = "raise"
             THEN [response |-> GenerateFallback(mood), degraded |-> d1]
             ELSE IF ~HasUris(recs.result.value)
             THEN [response |-> GenerateFallback(mood), degraded |-> d1 \cup d2]
             ELSE LET made == create_playlist("main", playlist_name,
                                              TrackUris(recs.result.value), ext.store)
                      d3 == IF Degraded(made, ext.store) THEN {"create_playlist"} ELSE {}
                  IN  IF made.result.kind = "raise"
                      THEN [response |-> GenerateFallback(mood), degraded |-> d1 \cup d2]
                      ELSE [response |->
                                Returned([status        |-> "success",
                                          playlist_id   |-> made.result.value.id,
                                          playlist_name |-> made.result.value.name,
                                          mood          |-> mood,
                                          tracks        |-> TracksInfo(recs.result.value)]),
                            degraded |-> d1 \cup d2 \cup d3]

\* the except branch of modify_playlist
ModifyError(e) ==
    Returned([status |-> "error", message |-> "Failed to modify playlist: " \o e])

\* for mood in MOOD_TO_AUDIO_FEATURES: if mood in description: base_mood = mood; break
RECURSIVE FirstMoodIn(_, _)
FirstMoodIn(description, i) ==
    IF i > Len(MoodOrder) THEN "happy"
    ELSE IF StrContains(description, Spell(MoodOrder[i])) THEN MoodOrder[i]
    ELSE FirstMoodIn(description, i + 1)

\* modify_playlist: the response, and the catalog operations that degraded
modify_playlist(req, ext) ==
    IF ext.client # "ok" THEN [response |-> ModifyError(ext.client), degraded |-> {}]
    ELSE IF ext.lookup # "ok" THEN [response |-> ModifyError(ext.lookup), degraded |-> {}]
    ELSE LET description == StrLower(JoinWords(ext.description))
             base_mood == FirstMoodIn(description, 1)
             copied == DictCopy(TableHeap, TableRefOf(base_mood), "d1")
             adjusted == adjust_audio_features(copied.heap, copied.ref, req.adjustment, "d2")
             adjusted_features == adjusted.heap[adjusted.ref]
             recs == get_recommendations("main", adjusted_features, ext.recs)
             d2 == IF Degraded(recs, ext.recs) THEN {"get_recommendations"} ELSE {}
         IN  IF recs.result.kind = "raise"
             THEN [response |-> ModifyError(recs.result.exc), degraded |-> {}]
             ELSE IF ~HasUris(recs.result.value)
             THEN [response |-> ModifyError("'uri'"), degraded |-> d2]
             ELSE LET updated == modify_playlist_tracks("main", req.playlist_id,
                                                        TrackUris(recs.result.value), ext.store)
                      d3 == IF Degraded(updated, ext.store)
                            THEN {"modify_playlist_tracks"} ELSE {}
                  IN  IF updated.result.kind = "raise"
                      THEN [response |-> ModifyError(updated.result.exc), degraded |-> d2]
                      ELSE IF "name" \notin DOMAIN updated.result.value
                      THEN [response |-> ModifyError("'name'"), degraded |-> d2 \cup d3]
                      ELSE [response |->
                                Returned([status        |-> "success",
                                          playlist_id   |-> updated.result.value.id,
                                          playlist_name |-> updated.result.value.name,
                                          adjustment    |-> req.adjustment,
                                          tracks        |-> TracksInfo(recs.result.value)]),
                            degraded |-> d2 \cup d3]

-----------------------------------------------------------------------------
(* SpecService: one request at a time *)

\* the external service answers every attempt of one operation alike
SteadySingle == {[i \in 1..STOP_AFTER_ATTEMPT |-> <<o, "ok">>] : o \in Outcomes}
SteadyDouble ==
    {[i \in 1..STOP_AFTER_ATTEMPT |-> pair] :
        pair \in {<<"ok", o>> : o \in Outcomes} \cup {<<o, "ok">> : o \in Outcomes}}

RequestedMoods == Moods \cup {"angry"}
RequestedNames == {None, "My Mix"}
Descriptions == {<<>>, <<"calm", "and", "happy">>, <<"More", "CALM">>, <<"energetic">>}

NoRequest == [mood |-> "none", name |-> "none", playlist_id |-> "none", adjustment |-> "none"]
NoExternal == [client |-> "none"]

InitService ==
    /\ sv_pc = "idle"
    /\ sv_op = "none"
    /\ sv_request = NoRequest
    /\ sv_external = NoExternal
    /\ sv_degraded = {}
    /\ sv_response = Returned("none")

GeneratePlaylist ==
    /\ sv_pc = "idle"
    /\ \E mood \in RequestedMoods, name \in RequestedNames,
          client \in Outcomes, me \in Outcomes, top \in SteadySingle,
          recs \in SteadySingle, store \in SteadyDouble, random_mood \in Moods :
          LET req == [NoRequest EXCEPT !.mood = mood, !.name = name]
              ext == [client |-> client, me |-> me, top |-> top, recs |-> recs,
                      store |-> store, random_mood |-> random_mood]
              r == generate_playlist(req, ext)
          IN  /\ sv_request' = req
              /\ sv_external' = ext
              /\ sv_degraded' = r.degraded
              /\ sv_response' = r.response
    /\ sv_op' = "generate_playlist"
    /\ sv_pc' = "done"
    /\ UNCHANGED outside_service

ModifyPlaylist ==
    /\ sv_pc = "idle"
    /\ \E playlist_id \in PlaylistIds, adjustment \in AdjustmentInputs,
          client \in Outcomes, lookup \in Outcomes, description \in Descriptions,
          recs \in SteadySingle, store \in SteadyDouble :
          LET req == [NoRequest EXCEPT !.playlist_id = playlist_id, !.adjustment = adjustment]
              ext == [client |-> client, lookup |-> lookup, description |-> description,
                      recs |-> recs, store |-> store]
              r == modify_playlist(req, ext)
          IN  /\ sv_request' = req
              /\ sv_external' = ext
              /\ sv_degraded' = r.degraded
              /\ sv_response' = r.response
    /\ sv_op' = "modify_playlist"
    /\ sv_pc' = "done"
    /\ UNCHANGED outside_service

\* the response is sent; the next request starts afresh
ServiceReturn ==
    /\ sv_pc = "done"
    /\ sv_pc' = "idle"
    /\ sv_op' = "none"
    /\ sv_request' = NoRequest
    /\ sv_external' = NoExternal
    /\ sv_degraded' = {}
    /\ sv_response' = Returned("none")
    /\ UNCHANGED outside_service

NextService ==
    \/ GeneratePlaylist
    \/ ModifyPlaylist
    \/ ServiceReturn

-----------------------------------------------------------------------------
(* SpecTables: the operations of one module over its tables, held as objects *)

\* references of the fallback catalog's lists
FallbackRefOf(m) == "fb_" \o m
FallbackRefs == {FallbackRefOf(m) : m \in Moods}
FallbackHeap(impl) ==
    [r \in FallbackRefs |-> FallbackTracksOf(impl)[CHOOSE m \in Moods : FallbackRefOf(m) = r]]

\* the adjustment table of each module
AdjustmentsOf(impl) == IF impl = "main" THEN ADJUSTMENTS ELSE self_adjustments

\* MOOD_TO_AUDIO_FEATURES[mood] after "if mood not in ...: mood = 'happy'", and
\* self.mood_feature_map.get(mood, self.mood_feature_map["happy"]): the entry itself
MoodEntryRef(mood) == IF mood \in Moods THEN TableRefOf(mood) ELSE TableRefOf("happy")

\* FALLBACK_TRACKS.get(mood, FALLBACK_TRACKS["happy"]): the list itself
FallbackEntryRef(mood) ==
    IF mood \in Moods THEN FallbackRefOf(mood) ELSE FallbackRefOf("happy")

InitTables ==
    /\ tb_impl \in Impls
    /\ tb_moods = TableHeap
    /\ tb_adjustments = AdjustmentsOf(tb_impl)
    /\ tb_fallback = FallbackHeap(tb_impl)
    /\ tb_held = "none"
    /\ tb_tracks = "none"
    /\ tb_op = "none"
    /\ tb_steps = 0

\* every operation is one step
Step(op) ==
    /\ tb_steps < MaxOps
    /\ tb_steps' = tb_steps + 1
    /\ tb_op' = op
    /\ UNCHANGED tb_impl
    /\ UNCHANGED outside_tables

\* SpotifyClient.get_audio_features_for_mood(mood), and in main.py
\* audio_features = MOOD_TO_AUDIO_FEATURES[mood]: the caller holds the entry itself
TbGetAudioFeaturesForMood ==
    /\ Step("get_audio_features_for_mood")
    /\ \E mood \in RequestedMoods : tb_held' = MoodEntryRef(mood)
    /\ tb_moods' = Collect(tb_moods, {})
    /\ UNCHANGED <<tb_adjustments, tb_fallback, tb_tracks>>

\* adjust_audio_features(base_features, adjustment_type) on the dict held
TbAdjustAudioFeatures ==
    /\ Step("adjust_audio_features")
    /\ tb_held # "none"
    /\ \E adj \in AdjustmentInputs :
          LET h0 == Collect(tb_moods, {tb_held})
              r  == AdjustOnHeap(tb_adjustments, h0, tb_held, adj, FreshRef(h0))
          IN  /\ tb_moods' = Collect(r.heap, {r.ref})
              /\ tb_held' = r.ref
    /\ UNCHANGED <<tb_adjustments, tb_fallback, tb_tracks>>

\* main.predict_mood without a model reads list(MOOD_TO_AUDIO_FEATURES.keys())
TbPredictMood ==
    /\ Step("predict_mood")
    /\ tb_impl = "main"
    /\ \E out \in ClassifierOutputs, model \in {None, "pipeline"},
          random_mood \in {m \in Moods : TableRefOf(m) \in DOMAIN tb_moods} :
          predict_mood(model, out, random_mood).ret.kind = "return"
    /\ UNCHANGED <<tb_moods, tb_adjustments, tb_fallback, tb_held, tb_tracks>>

\* SpotifyClient.parse_adjustment_text iterates over the keys of self.adjustments
TbParseAdjustmentText ==
    /\ Step("parse_adjustment_text")
    /\ tb_impl = "client"
    /\ \E ws \in ScenarioTexts : parse_adjustment_text(JoinWords(ws)) \in DOMAIN tb_adjustments
    /\ UNCHANGED <<tb_moods, tb_adjustments, tb_fallback, tb_held, tb_tracks>>

\* get_top_tracks: on failure a new list of the ids of a fallback list
TbGetTopTracks ==
    /\ Step("get_top_tracks")
    /\ \E outcome \in Outcomes, random_mood \in Moods :
          GetTopTracksBody(tb_impl, outcome, random_mood).kind = "return"
    /\ tb_tracks' = "none"
    /\ UNCHANGED <<tb_moods, tb_adjustments, tb_fallback, tb_held>>

\* get_recommendations on the dict held (or on a table entry): on failure the
\* fallback list itself is returned
TbGetRecommendations ==
    /\ Step("get_recommendations")
    /\ \E features \in (TableRefs \cup {tb_held}) \ {"none"}, outcome \in Outcomes :
          LET mood == IF tb_impl = "main"
                      THEN MainFallbackMood(tb_moods[features])
                      ELSE ClientFallbackMood(tb_moods[features])
          IN  tb_tracks' = IF outcome = "ok" THEN "none" ELSE FallbackEntryRef(mood)
    /\ UNCHANGED <<tb_moods, tb_adjustments, tb_fallback, tb_held>>

\* create_playlist: the record returned holds the caller's name and track_uris
TbCreatePlaylist ==
    /\ Step("create_playlist")
    /\ \E outcome \in {<<"ok", "ok">>, <<"other", "ok">>, <<"ok", "transient">>} :
          CreatePlaylistBody(tb_impl, "My Mix", <<>>, outcome).kind = "return"
    /\ UNCHANGED <<tb_moods, tb_adjustments, tb_fallback, tb_held, tb_tracks>>

\* modify_playlist_tracks: the record returned holds the caller's playlist_id
TbModifyPlaylistTracks ==
    /\ Step("modify_playlist_tracks")
    /\ \E outcome \in {<<"ok", "ok">>, <<"other", "ok">>, <<"ok", "transient">>} :
          ModifyPlaylistTracksBody(tb_impl, "pl1", <<>>, outcome).kind = "return"
    /\ UNCHANGED <<tb_moods, tb_adjustments, tb_fallback, tb_held, tb_tracks>>

\* generate_playlist: audio_features is the table's entry, handed to
\* get_recommendations (which unpacks it with **); the fallback response holds
\* the fallback list itself
TbGeneratePlaylist ==
    /\ Step("generate_playlist")
    /\ tb_impl = "main"
    /\ \E mood \in RequestedMoods, me \in Outcomes, top \in SteadySingle,
          recs \in SteadySingle, store \in SteadyDouble :
          LET req == [NoRequest EXCEPT !.mood = mood, !.name = None]
              ext == [client |-> "ok", me |-> me, top |-> top, recs |-> recs,
                      store |-> store, random_mood |-> "happy"]
              r == generate_playlist(req, ext).response
          IN  tb_tracks' = IF r.kind = "return" /\ r.value.status = "fallback"
                           THEN FallbackEntryRef(mood) ELSE "none"
    /\ UNCHANGED <<tb_moods, tb_adjustments, tb_fallback, tb_held>>

\* modify_playlist: base_features = MOOD_TO_AUDIO_FEATURES[base_mood].copy(), then
\* adjust_audio_features on it; both dicts are locals of the handler
TbModifyPlaylist ==
    /\ Step("modify_playlist")
    /\ tb_impl = "main"
    /\ \E lookup \in Outcomes, description \in Descriptions, adj \in AdjustmentInputs :
          IF lookup # "ok"
          THEN tb_moods' = tb_moods
          ELSE LET base_mood == FirstMoodIn(StrLower(JoinWords(description)), 1)
                   h0 == Collect(tb_moods, {tb_held})
                   copied == DictCopy(h0, TableRefOf(base_mood), FreshRef(h0))
                   adjusted == AdjustOnHeap(tb_adjustments, copied.heap, copied.ref, adj,
                                            FreshRef(copied.heap))
               IN  tb_moods' = Collect(adjusted.heap, {tb_held})
    /\ tb_tracks' = "none"
    /\ UNCHANGED <<tb_adjustments, tb_fallback, tb_held>>

NextTables ==
    \/ TbGetAudioFeaturesForMood
    \/ TbAdjustAudioFeatures
    \/ TbPredictMood
    \/ TbParseAdjustmentText
    \/ TbGetTopTracks
    \/ TbGetRecommendations
    \/ TbCreatePlaylist
    \/ TbModifyPlaylistTracks
    \/ TbGeneratePlaylist
    \/ TbModifyPlaylist

-----------------------------------------------------------------------------
(* Specifications: one per component; the other components stay idle *)

\* the adjustment engine: chains of adjust_audio_features calls
InitSpecAdjust ==
    /\ InitAdjust
    /\ text_words = <<>> /\ text = <<>> /\ parse_pc = "start" /\ parsed = "none"
    /\ gw_pc = "idle" /\ gw_op = "none" /\ gw_impl = "none" /\ gw_seed_tracks = <<>>
    /\ gw_audio_features = EmptyDict /\ gw_name = "none" /\ gw_playlist_id = "none"
    /\ gw_track_uris = <<>> /\ gw_outcomes = <<>> /\ gw_attempts = 0
    /\ gw_sent_seeds = <<>> /\ gw_ret = Returned("none")
    /\ sv_pc = "idle" /\ sv_op = "none" /\ sv_request = NoRequest /\ sv_external = NoExternal
    /\ sv_degraded = {} /\ sv_response = Returned("none")
    /\ nlp_model = "unset" /\ self_model = "unset" /\ md_impl = "none" /\ md_available = FALSE
    /\ md_output = NoOutput /\ md_invoked = FALSE /\ md_ret = Returned("none") /\ md_calls = 0
    /\ tb_impl = "main" /\ tb_moods = TableHeap /\ tb_adjustments = ADJUSTMENTS
    /\ tb_fallback = FallbackHeap("main") /\ tb_held = "none" /\ tb_tracks = "none"
    /\ tb_op = "none" /\ tb_steps = 0

SpecAdjust == InitSpecAdjust /\ [][NextAdjust]_vars

\* the adjustment text parser
InitSpecParse ==
    /\ InitParse
    /\ heap = TableHeap /\ base_ref = "tbl_happy" /\ result_ref = "none"
    /\ adjustment_type = "none" /\ adjust_impl = "none" /\ base_before = EmptyDict
    /\ repeated = FALSE /\ second_result = EmptyDict /\ steps = 0
    /\ gw_pc = "idle" /\ gw_op = "none" /\ gw_impl = "none" /\ gw_seed_tracks = <<>>
    /\ gw_audio_features = EmptyDict /\ gw_name = "none" /\ gw_playlist_id = "none"
    /\ gw_track_uris = <<>> /\ gw_outcomes = <<>> /\ gw_attempts = 0
    /\ gw_sent_seeds = <<>> /\ gw_ret = Returned("none")
    /\ sv_pc = "idle" /\ sv_op = "none" /\ sv_request = NoRequest /\ sv_external = NoExternal
    /\ sv_degraded = {} /\ sv_response = Returned("none")
    /\ nlp_model = "unset" /\ self_model = "unset" /\ md_impl = "none" /\ md_available = FALSE
    /\ md_output = NoOutput /\ md_invoked = FALSE /\ md_ret = Returned("none") /\ md_calls = 0
    /\ tb_impl = "main" /\ tb_moods = TableHeap /\ tb_adjustments = ADJUSTMENTS
    /\ tb_fallback = FallbackHeap("main") /\ tb_held = "none" /\ tb_tracks = "none"
    /\ tb_op = "none" /\ tb_steps = 0

SpecParse == InitSpecParse /\ [][NextParse]_vars

\* the catalog operations behind the retry wrapper
InitSpecGateway ==
    /\ InitGateway
    /\ heap = TableHeap /\ base_ref = "tbl_happy" /\ result_ref = "none"
    /\ adjustment_type = "none" /\ adjust_impl = "none" /\ base_before = EmptyDict
    /\ repeated = FALSE /\ second_result = EmptyDict /\ steps = 0
    /\ text_words = <<>> /\ text = <<>> /\ parse_pc = "start" /\ parsed = "none"
    /\ sv_pc = "idle" /\ sv_op = "none" /\ sv_request = NoRequest /\ sv_external = NoExternal
    /\ sv_degraded = {} /\ sv_response = Returned("none")
    /\ nlp_model = "unset" /\ self_model = "unset" /\ md_impl = "none" /\ md_available = FALSE
    /\ md_output = NoOutput /\ md_invoked = FALSE /\ md_ret = Returned("none") /\ md_calls = 0
    /\ tb_impl = "main" /\ tb_moods = TableHeap /\ tb_adjustments = ADJUSTMENTS
    /\ tb_fallback = FallbackHeap("main") /\ tb_held = "none" /\ tb_tracks = "none"
    /\ tb_op = "none" /\ tb_steps = 0

SpecGateway == InitSpecGateway /\ [][NextGateway]_vars

\* the request handlers
InitSpecService ==
    /\ InitService
    /\ heap = TableHeap /\ base_ref = "tbl_happy" /\ result_ref = "none"
    /\ adjustment_type = "none" /\ adjust_impl = "none" /\ base_before = EmptyDict
    /\ repeated = FALSE /\ second_result = EmptyDict /\ steps = 0
    /\ text_words = <<>> /\ text = <<>> /\ parse_pc = "start" /\ parsed = "none"
    /\ gw_pc = "idle" /\ gw_op = "none" /\ gw_impl = "none" /\ gw_seed_tracks = <<>>
    /\ gw_audio_features = EmptyDict /\ gw_name = "none" /\ gw_playlist_id = "none"
    /\ gw_track_uris = <<>> /\ gw_outcomes = <<>> /\ gw_attempts = 0
    /\ gw_sent_seeds = <<>> /\ gw_ret = Returned("none")
    /\ nlp_model = "unset" /\ self_model = "unset" /\ md_impl = "none" /\ md_available = FALSE
    /\ md_output = NoOutput /\ md_invoked = FALSE /\ md_ret = Returned("none") /\ md_calls = 0
    /\ tb_impl = "main" /\ tb_moods = TableHeap /\ tb_adjustments = ADJUSTMENTS
    /\ tb_fallback = FallbackHeap("main") /\ tb_held = "none" /\ tb_tracks = "none"
    /\ tb_op = "none" /\ tb_steps = 0

SpecService == InitSpecService /\ [][NextService]_vars

\* mood detection
InitSpecMood ==
    /\ InitMood
    /\ heap = TableHeap /\ base_ref = "tbl_happy" /\ result_ref = "none"
    /\ adjustment_type = "none" /\ adjust_impl = "none" /\ base_before = EmptyDict
    /\ repeated = FALSE /\ second_result = EmptyDict /\ steps = 0
    /\ text_words = <<>> /\ text = <<>> /\ parse_pc = "start" /\ parsed = "none"
    /\ gw_pc = "idle" /\ gw_op = "none" /\ gw_impl = "none" /\ gw_seed_tracks = <<>>
    /\ gw_audio_features = EmptyDict /\ gw_name = "none" /\ gw_playlist_id = "none"
    /\ gw_track_uris = <<>> /\ gw_outcomes = <<>> /\ gw_attempts = 0
    /\ gw_sent_seeds = <<>> /\ gw_ret = Returned("none")
    /\ sv_pc = "idle" /\ sv_op = "none" /\ sv_request = NoRequest /\ sv_external = NoExternal
    /\ sv_degraded = {} /\ sv_response = Returned("none")
    /\ tb_impl = "main" /\ tb_moods = TableHeap /\ tb_adjustments = ADJUSTMENTS
    /\ tb_fallback = FallbackHeap("main") /\ tb_held = "none" /\ tb_tracks = "none"
    /\ tb_op = "none" /\ tb_steps = 0

SpecMood == InitSpecMood /\ [][NextMood]_vars

\* the tables of one module under all its operations
InitSpecTables ==
    /\ InitTables
    /\ heap = TableHeap /\ base_ref = "tbl_happy" /\ result_ref = "none"
    /\ adjustment_type = "none" /\ adjust_impl = "none" /\ base_before = EmptyDict
    /\ repeated = FALSE /\ second_result = EmptyDict /\ steps = 0
    /\ text_words = <<>> /\ text = <<>> /\ parse_pc = "start" /\ parsed = "none"
    /\ gw_pc = "idle" /\ gw_op = "none" /\ gw_impl = "none" /\ gw_seed_tracks = <<>>
    /\ gw_audio_features = EmptyDict /\ gw_name = "none" /\ gw_playlist_id = "none"
    /\ gw_track_uris = <<>> /\ gw_outcomes = <<>> /\ gw_attempts = 0
    /\ gw_sent_seeds = <<>> /\ gw_ret = Returned("none")
    /\ sv_pc = "idle" /\ sv_op = "none" /\ sv_request = NoRequest /\ sv_external = NoExternal
    /\ sv_degraded = {} /\ sv_response = Returned("none")
    /\ nlp_model = "unset" /\ self_model = "unset" /\ md_impl = "none" /\ md_available = FALSE
    /\ md_output = NoOutput /\ md_invoked = FALSE /\ md_ret = Returned("none") /\ md_calls = 0

SpecTables == InitSpecTables /\ [][NextTables]_vars

-----------------------------------------------------------------------------
(* Claims about adjust_audio_features, checked under SpecAdjust *)

ResultVector == heap[result_ref]

C7_Delta(adj) ==
    CASE adj = "more energetic"    -> ("target_energy" :> 20)
      [] adj = "less energetic"    -> ("target_energy" :> -20)
      [] adj = "happier"           -> ("target_valence" :> 20)
      [] adj = "more acoustic"     -> ("target_acousticness" :> 20)
      [] adj = "more danceable"    -> ("target_danceability" :> 20)
      [] adj = "more instrumental" -> ("target_instrumentalness" :> 20)
      [] adj = "more calm"         -> ("target_energy" :> -30) @@ ("target_tempo" :> -2000)

C7_Expected(base, adj) ==
    LET delta == C7_Delta(adj)
        sum(f) == IF f \in DOMAIN base THEN base[f] + delta[f] ELSE delta[f]
        bounded == {"target_valence", "target_energy", "target_acousticness",
                    "target_danceability", "target_instrumentalness"}
    IN  [f \in (DOMAIN base) \cup (DOMAIN delta) |->
            IF f \notin DOMAIN delta THEN base[f]
            ELSE IF f \notin bounded THEN sum(f)
            ELSE IF sum(f) < 0 THEN 0
            ELSE IF sum(f) > 100 THEN 100
            ELSE sum(f)]

\* C7: for a known adjustment the returned vector is the base with each delta
\* added (or inserted when the feature is absent) and the bounded features
\* clamped into [0.0, 1.0], every other key keeping its base value; with the two
\* worked examples of the specification.
C7_AdjustIsAddInsertClamp ==
    (result_ref # "none" /\ adjustment_type \in AdjustmentIds) =>
        /\ ResultVector = C7_Expected(base_before, adjustment_type)
        /\ (base_before = ("target_energy" :> 90) /\ adjustment_type = "more energetic")
              => ResultVector = ("target_energy" :> 100)
        /\ (base_before = EmptyDict /\ adjustment_type = "more calm")
              => ResultVector = ("target_energy" :> 0) @@ ("target_tempo" :> -2000)

\* the empty vector with "more calm": one feature inserted and clamped, one inserted
C7_Witness ==
    /\ result_ref # "none"
    /\ base_before = EmptyDict
    /\ adjustment_type = "more calm"
    /\ ResultVector = ("target_energy" :> 0) @@ ("target_tempo" :> -2000)

\* C8: the dict passed as base holds the same keys and values after the call as
\* before it, for known and unknown adjustments, and the same call made a second
\* time returns an equal vector.
C8_BaseUnchangedAndRepeatable ==
    result_ref # "none" =>
        /\ heap[base_ref] = base_before
        /\ repeated => second_result = ResultVector

\* a known adjustment that changed a value of the mood table's own entry,
\* called twice
C8_Witness ==
    /\ result_ref # "none"
    /\ repeated
    /\ base_ref \in TableRefs
    /\ adjustment_type \in AdjustmentIds
    /\ ResultVector # base_before

-----------------------------------------------------------------------------
(* Claims about the catalog operations (SpecGateway) *)

\* how attempt i of the call ended at the external service
AttemptFailure(i) == FirstFailure(gw_outcomes[i])

\* the attempts the retry policy asks for: one more after each transient failure,
\* three at most
RECURSIVE C2_AttemptsByPolicy(_)
C2_AttemptsByPolicy(i) ==
    IF i < STOP_AFTER_ATTEMPT /\ AttemptFailure(i) \in RetryableExceptions
    THEN C2_AttemptsByPolicy(i + 1)
    ELSE i

\* C2: a catalog operation whose external call meets a transient exception makes
\* the call again, three attempts at most, returns fallback data only after the
\* third failed attempt, and never raises to its caller.
C2_TransientFailureIsRetried ==
    gw_pc = "done" =>
        /\ gw_ret.kind = "return"
        /\ gw_attempts = C2_AttemptsByPolicy(1)

\* the mood the specification's priority order gives for a feature vector
C3_Mood(f) ==
    IF DictGet(f, "target_valence", 0) > 60 THEN "happy"
    ELSE IF DictGet(f, "target_energy", 0) > 80 THEN "energetic"
    ELSE IF DictGet(f, "target_acousticness", 0) > 60 THEN "calm"
    ELSE IF DictGet(f, "target_valence", 0) < 40 THEN "sad"
    ELSE IF DictGet(f, "target_instrumentalness", 0) > 60 THEN "focused"
    ELSE "happy"

\* C3: when the external recommendation call fails, get_recommendations (main's
\* and SpotifyClient's) returns the three fallback tracks of the mood the
\* priority order gives for the requested vector; {target_energy: 0.85} gives
\* the energetic tracks.
C3_FallbackMoodByPriority ==
    (/\ gw_pc = "done"
     /\ gw_op = "get_recommendations"
     /\ AttemptFailure(gw_attempts) # "ok")
    => (/\ gw_ret.kind = "return"
        /\ gw_ret.value = FallbackTracksOf(gw_impl)[C3_Mood(gw_audio_features)])

\* C5: when playlist creation or replacement fails, create_playlist and
\* modify_playlist_tracks (main's and SpotifyClient's) return a synthetic record
\* with the requested name / id and an error marker field.
C5_FailureCarriesErrorMarker ==
    (/\ gw_pc = "done"
     /\ gw_op \in {"create_playlist", "modify_playlist_tracks"}
     /\ AttemptFailure(gw_attempts) # "ok")
    => (/\ gw_ret.kind = "return"
        /\ "error" \in DOMAIN gw_ret.value
        /\ gw_op = "create_playlist" => gw_ret.value.name = gw_name
        /\ gw_op = "modify_playlist_tracks" => gw_ret.value.id = gw_playlist_id)

\* is the returned value fallback data of the operation called
C15_IsFallbackData ==
    CASE gw_op = "get_top_tracks" ->
           \E m \in Moods : gw_ret.value = TrackIds(FallbackTracksOf(gw_impl)[m])
      [] gw_op = "get_recommendations" ->
           \E m \in Moods : gw_ret.value = FallbackTracksOf(gw_impl)[m]
      [] gw_op = "create_playlist" ->
           gw_ret.value.id = "fallback_playlist" /\ gw_ret.value.name = gw_name
      [] gw_op = "modify_playlist_tracks" ->
           gw_ret.value.id = gw_playlist_id /\ "error" \in DOMAIN gw_ret.value

\* C15: when the external call of a catalog operation raises an exception that is
\* not of the network / upstream-service kinds, the operation makes exactly one
\* attempt and returns fallback data instead of raising.
C15_UnexpectedErrorOneAttempt ==
    (gw_pc = "done" /\ AttemptFailure(1) = "other")
    => (/\ gw_attempts = 1
        /\ gw_ret.kind = "return"
        /\ C15_IsFallbackData)

\* SpotifyClient.create_playlist whose second external call raises, with later
\* attempts that would have worked
C15_Witness ==
    /\ gw_pc = "done"
    /\ gw_op = "create_playlist"
    /\ gw_impl = "client"
    /\ gw_outcomes = <<<<"ok", "other">>, <<"ok", "ok">>, <<"ok", "ok">>>>
    /\ gw_attempts = 1
    /\ gw_ret.value.id = "fallback_playlist"

\* C16: the external recommendation call gets at most 5 seed tracks: a longer
\* list is cut to its first 5 without an error, a non-empty list of 5 or fewer
\* is passed as it is.
C16_AtMostFiveSeeds ==
    (gw_pc = "done" /\ gw_op = "get_recommendations")
    => (/\ Len(gw_sent_seeds) <= 5
        /\ Len(gw_seed_tracks) > 5 =>
              /\ gw_sent_seeds = SubSeq(gw_seed_tracks, 1, 5)
              /\ gw_ret.kind = "return"
              /\ AttemptFailure(gw_attempts) = "ok" => gw_ret.value = RecommendedTracks
        /\ Len(gw_seed_tracks) \in 1..5 => gw_sent_seeds = gw_seed_tracks)

\* six seeds given, five sent, the recommendations returned
C16_Witness ==
    /\ gw_pc = "done"
    /\ gw_op = "get_recommendations"
    /\ Len(gw_seed_tracks) = 6
    /\ gw_sent_seeds = <<"s1", "s2", "s3", "s4", "s5">>
    /\ gw_ret = Returned(RecommendedTracks)

\* C18: for each mood m of the table, when SpotifyClient.get_recommendations
\* fails on the unadjusted vector get_audio_features_for_mood(m), it returns the
\* fallback tracks of m.
C18_FallbackRoundTrip ==
    \A m \in Moods :
        (/\ gw_pc = "done"
         /\ gw_op = "get_recommendations"
         /\ gw_impl = "client"
         /\ AttemptFailure(gw_attempts) # "ok"
         /\ gw_audio_features = get_audio_features_for_mood(m))
        => gw_ret.value = SpotifyClient_FALLBACK_TRACKS[m]

-----------------------------------------------------------------------------
(* Claims about the request handlers (SpecService) *)

\* C4: whatever the external calls do, generate_playlist and modify_playlist
\* raise nothing to their caller and return a result whose status is success,
\* fallback or error.
C4_AlwaysATaggedResult ==
    sv_pc = "done" =>
        /\ sv_response.kind = "return"
        /\ sv_response.value.status \in {"success", "fallback", "error"}

\* C6: a result of generate_playlist or modify_playlist has status "success"
\* only when no catalog operation of the request answered with fallback or
\* synthetic data.
C6_SuccessMeansNothingDegraded ==
    (/\ sv_pc = "done"
     /\ sv_response.kind = "return"
     /\ sv_response.value.status = "success")
    => sv_degraded = {}

-----------------------------------------------------------------------------
(* Claims about predict_mood, checked under SpecMood *)

\* the classifier was invoked and raised, or gave a value that cannot be unpacked
ClassifierFailed == md_invoked /\ (md_output.raises \/ ~CanUnpack(md_output.value))

\* C12: when the classifier is there but raises during the call, or returns a
\* value that cannot be unpacked, predict_mood (main's and MoodDetector's)
\* returns mood "happy" with confidence 0.0 and raises nothing.
C12_ClassifierFailureGivesHappyZero ==
    (md_impl # "none" /\ ClassifierFailed)
    => (/\ md_ret.kind = "return"
        /\ md_ret.value = [mood |-> "happy", confidence |-> 0])

\* MoodDetector with a loaded model gets a value without the score
C12_Witness ==
    /\ md_impl = "detector"
    /\ md_available
    /\ md_invoked
    /\ md_output = [raises |-> FALSE, value |-> << <<[label |-> "joy"]>> >>]
    /\ md_ret = Returned([mood |-> "happy", confidence |-> 0])

\* a mood of the five with confidence 0.5, the classifier not invoked
DegradedResult ==
    /\ md_ret.kind = "return"
    /\ md_ret.value.mood \in Moods
    /\ md_ret.value.confidence = 50
    /\ ~md_invoked

\* C13 as stated: whenever the model is missing when predict_mood (main's or
\* MoodDetector's) is called, the result is a mood of the five with confidence
\* 0.5 and the classifier is not invoked.
C13_UnavailableGivesRandomMood ==
    (md_impl # "none" /\ ~md_available) => DegradedResult

\* C13 amended: with the model missing at the call, main.predict_mood gives a
\* mood of the five with confidence 0.5 without invoking the classifier;
\* MoodDetector.predict_mood first loads the model again, gives that degraded
\* result only when the load fails too, and invokes the classifier when the
\* load works.
C13_UnavailableAfterReloadGivesRandomMood ==
    (md_impl # "none" /\ ~md_available)
    => (/\ (md_impl = "main" \/ self_model = None) => DegradedResult
        /\ (md_impl = "detector" /\ self_model # None) => md_invoked)

\* the second call to a MoodDetector whose model would not load
C13_Witness ==
    /\ md_impl = "detector"
    /\ md_calls = 2
    /\ ~md_available
    /\ self_model = None
    /\ md_ret = Returned([mood |-> "calm", confidence |-> 50])
    /\ ~md_invoked

\* the label table as the specification gives it
C14_Mood(label) ==
    CASE label = "joy" -> "happy"
      [] label = "sadness" -> "sad"
      [] label = "anger" -> "energetic"
      [] label = "fear" -> "sad"
      [] label = "love" -> "happy"
      [] label = "surprise" -> "energetic"
      [] OTHER -> "happy"

\* C14: on a successful classification the mood is the image of the raw label
\* under the table (happy for a label not in it) and the confidence is the
\* classifier's score unchanged.
C14_LabelTableAndScore ==
    (md_impl # "none" /\ md_invoked /\ ~ClassifierFailed)
    => (/\ md_ret.kind = "return"
        /\ md_ret.value.mood = C14_Mood(md_output.value[1][1].label)
        /\ md_ret.value.confidence = md_output.value[1][1].score)

\* main.predict_mood on label fear with score 0.97
C14_Witness ==
    /\ md_impl = "main"
    /\ md_invoked
    /\ md_output = [raises |-> FALSE, value |-> << <<[label |-> "fear", score |-> 97]>> >>]
    /\ md_ret = Returned([mood |-> "sad", confidence |-> 97])

-----------------------------------------------------------------------------
(* Claim about the tables, checked under SpecTables *)

\* C17: after any sequence of operations the mood-to-feature table, the
\* adjustment table and the fallback catalog hold their initial contents, though
\* some operations hand out a table's own entry.
C17_TablesNeverChange ==
    /\ \A m \in Moods : tb_moods[TableRefOf(m)] = MOOD_TO_AUDIO_FEATURES[m]
    /\ tb_adjustments = AdjustmentsOf(tb_impl)
    /\ \A m \in Moods : tb_fallback[FallbackRefOf(m)] = FallbackTracksOf(tb_impl)[m]

\* the caller got a table entry itself, adjusted it into a dict of its own that
\* differs from every entry, and was handed a fallback list itself
C17_Witness ==
    /\ tb_steps = 3
    /\ tb_held \in ScratchRefs
    /\ \A m \in Moods : tb_moods[tb_held] # MOOD_TO_AUDIO_FEATURES[m]
    /\ tb_tracks \in FallbackRefs
    /\ C17_TablesNeverChange

-----------------------------------------------------------------------------
(* Claims about parse_adjustment_text, checked under SpecParse *)

\* positions, in the table's insertion order, of the phrases text t contains
ContainedPhrases(t) ==
    {i \in 1..Len(AdjustmentOrder) : StrContains(t, AdjustmentPhrases[i])}

\* C9: when the lower-cased, trimmed text contains one of the seven adjustment
\* phrases, parse_adjustment_text returns the contained phrase that comes first in
\* the table's insertion order, whatever keywords the text also holds; "I want
\* something more energetic but less loud" gives "more energetic".
C9_LiteralPhraseWins ==
    parse_pc = "done" =>
        LET contained == ContainedPhrases(text)
        IN  /\ contained # {} =>
                 parsed = AdjustmentOrder[CHOOSE i \in contained :
                                             \A j \in contained : i <= j]
            /\ text_words = <<"I", "want", "something", "more", "energetic", "but", "less", "loud">>
                 => parsed = "more energetic"

\* the scenario text: the phrase and a negation word are both present
C9_Witness ==
    /\ parse_pc = "done"
    /\ text_words = <<"I", "want", "something", "more", "energetic", "but", "less", "loud">>
    /\ ContainedPhrases(text) = {1}
    /\ StrContains(text, Literal(<<"less">>))
    /\ parsed = "more energetic"

\* the keyword rules as the specification lists them
C10_Rule1 == {Literal(<<"energetic">>), Literal(<<"energy">>), Literal(<<"lively">>), Literal(<<"upbeat">>)}
C10_Rule2 == {Literal(<<"happy">>), Literal(<<"cheerful">>), Literal(<<"joyful">>)}
C10_Rule3 == {Literal(<<"acoustic">>), Literal(<<"unplugged">>)}
C10_Rule4 == {Literal(<<"dance">>), Literal(<<"groove">>), Literal(<<"rhythm">>)}
C10_Rule5 == {Literal(<<"instrumental">>), Literal(<<"no", "vocals">>), Literal(<<"no", "singing">>)}
C10_Rule6 == {Literal(<<"calm">>), Literal(<<"relaxing">>), Literal(<<"peaceful">>), Literal(<<"chill">>)}
C10_Negations == {Literal(<<"less">>), Literal(<<"lower">>), Literal(<<"down">>)}

C10_Keywords(k) ==
    CASE k = 1 -> C10_Rule1
      [] k = 2 -> C10_Rule2
      [] k = 3 -> C10_Rule3
      [] k = 4 -> C10_Rule4
      [] k = 5 -> C10_Rule5
      [] k = 6 -> C10_Rule6
      [] k = 7 -> {<<>>}

C10_Fires(t, k) == \E w \in C10_Keywords(k) : StrContains(t, w)

C10_Negated(t) == \E w \in C10_Negations : StrContains(t, w)

C10_Outcome(t, k) ==
    CASE k = 1 -> IF C10_Negated(t) THEN "less energetic" ELSE "more energetic"
      [] k = 2 -> "happier"
      [] k = 3 -> "more acoustic"
      [] k = 4 -> "more danceable"
      [] k = 5 -> "more instrumental"
      [] k = 6 -> "more calm"
      [] k = 7 -> "more energetic"

\* the first rule of the list that matches text t (rule 7 always does)
RECURSIVE C10_FirstRule(_, _)
C10_FirstRule(t, k) == IF C10_Fires(t, k) THEN k ELSE C10_FirstRule(t, k + 1)

\* C10: when the text contains none of the seven literal phrases, the result is
\* that of the first rule that matches, in the order energy (negated by less,
\* lower, down), happy, acoustic, dance, instrumental, calm, default "more
\* energetic"; the negation words matter under the first rule only.
C10_FirstKeywordRuleWins ==
    parse_pc = "done" =>
        LET t == text
        IN  ContainedPhrases(t) = {} => parsed = C10_Outcome(t, C10_FirstRule(t, 1))

\* the scenario text: no phrase, rule 6 is the first to match
C10_Witness ==
    /\ parse_pc = "done"
    /\ text_words = <<"make", "it", "super", "chill", "and", "relaxing">>
    /\ ContainedPhrases(text) = {}
    /\ C10_FirstRule(text, 1) = 6
    /\ parsed = "more calm"

\* C11: parse_adjustment_text is total: every text, the empty one and those
\* without any keyword included, gives one of the seven adjustment identifiers.
C11_ParseIsTotal ==
    parse_pc = "done" => parsed \in AdjustmentIds /\ Cardinality(AdjustmentIds) = 7

\* the empty text and a text of blanks only: the default is returned
C11_Witness ==
    /\ parse_pc = "done"
    /\ text_words = <<"", "">>
    /\ text = <<>>
    /\ parsed = "more energetic"

====
